---- MODULE Spec2Model ----
(***************************************************************************)
(* A model of the three scripts of dataframes-python:                      *)
(*   src/datasetup.py   flattens a store x product x time array bundle     *)
(*                      into a long-format table,                          *)
(*   src/pandasuse.py   day-of-week dummies, aggregation to product-date   *)
(*                      level, one OLS regression per product (pandas),    *)
(*   src/polarsuse.py   the same pipeline written with polars.             *)
(* Each script is a straight-line batch job: one action per step of the    *)
(* script, pc naming the step reached, "error" when a step raises.         *)
(*                                                                         *)
(* Dates are day numbers counted from 1970-01-01.  A rational number is a  *)
(* pair <<numerator, denominator>> in lowest terms, denominator > 0.       *)
(***************************************************************************)
EXTENDS Integers, Sequences, FiniteSets, TLC

VARIABLES
    script,         \* which script this run executes
    pc,             \* the step of the script reached
    npz,            \* datasetup: the loaded bundle (dates, synth_sales_data, fitted_line)
    flat,           \* datasetup: store_col, product_col, date_col, sales_flat, fitted_flat
    out_df,         \* datasetup: df, the long-format table
    csv,            \* pipelines: the rows of the table read from the csv file
    df,             \* pipelines: df after the day-of-week dummies are joined
    dow_columns,    \* pipelines: the list of dummy columns
    product_df,     \* pipelines: the product-date level table
    results,        \* pipelines: the dict of fitted models, in insertion order
    coef_df,        \* pipelines: the coefficient table
    weekday_cols    \* pipelines: the coefficient columns handed to the box plot

vars == <<script, pc, npz, flat, out_df,
          csv, df, dow_columns, product_df, results, coef_df, weekday_cols>>

matVars == <<npz, flat, out_df>>
pipeVars == <<csv, df, dow_columns, product_df, results, coef_df, weekday_cols>>

----------------------------------------------------------------------------
(* Bounds of the model.                                                    *)

\* the largest number of elements of an array of the bundle
MaxCells == 8
\* the values an element of synth_sales_data takes
Values == {0, 1}

----------------------------------------------------------------------------
(* Sequences and n-dimensional arrays, as numpy lays them out.             *)

SeqRange(s) == {s[i] : i \in 1..Len(s)}

RECURSIVE Size(_)
\* ndarray.size: the product of the dimensions
Size(shape) == IF shape = <<>> THEN 1 ELSE Head(shape) * Size(Tail(shape))

RECURSIVE Indices(_)
\* the index tuples (0-based) of an array of this shape
Indices(shape) ==
    IF shape = <<>> THEN {<<>>}
    ELSE {<<i>> \o rest : i \in 0..(Head(shape) - 1), rest \in Indices(Tail(shape))}

RECURSIVE UnravelF(_, _)
\* the column-major (Fortran order) counterpart of Unravel, first axis fastest
UnravelF(k, shape) ==
    IF shape = <<>> THEN <<>>
    ELSE <<k % Head(shape)>> \o UnravelF(k \div Head(shape), Tail(shape))

RECURSIVE Unravel(_, _)
\* the index tuple of the k-th element (0-based) in C order, last axis fastest
Unravel(k, shape) ==
    IF shape = <<>> THEN <<>>
    ELSE LET sz == Size(Tail(shape))
         IN  <<k \div sz>> \o Unravel(k % sz, Tail(shape))

\* ndarray.ravel(): the elements as a 1-D sequence, in C order
Ravel(a) == [i \in 1..Size(a.shape) |-> a.data[Unravel(i - 1, a.shape)]]

\* np.arange(n).reshape(..) with n on axis `axis` (1-based) and 1 on the others
IndexArray(n, axis, ndim) ==
    LET shape == [k \in 1..ndim |-> IF k = axis THEN n ELSE 1]
    IN  [shape |-> shape, data |-> [idx \in Indices(shape) |-> idx[axis]]]

\* np.broadcast_to(a, shape): axes of length 1 are stretched
BroadcastTo(a, shape) ==
    [shape |-> shape,
     data  |-> [idx \in Indices(shape) |->
                  a.data[[k \in 1..Len(shape) |->
                            IF a.shape[k] = 1 THEN 0 ELSE idx[k]]]]]

----------------------------------------------------------------------------
(* datasetup.py                                                            *)

\* pd.Timestamp("2025-06-01"), as a day number (a Sunday)
StartDate == 20240

\* the shapes (all axes non-empty) of n-dimensional arrays within the bound
Shapes(ndim) ==
    {sh \in [1..ndim -> 1..MaxCells] : Size(sh) <= MaxCells}

\* a shape with two neighbouring axes exchanged, and a shape without its
\* last axis
OtherShapes(sh) ==
    {[k \in 1..Len(sh) |-> IF k = i THEN sh[i + 1] ELSE IF k = i + 1 THEN sh[i] ELSE sh[k]] :
        i \in 1..(Len(sh) - 1)}
    \cup {SubSeq(sh, 1, Len(sh) - 1)}

RECURSIVE Code(_)
\* a number that names an index tuple: its entries read as decimal digits
Code(idx) ==
    IF idx = <<>> THEN 0 ELSE 10 * Code(SubSeq(idx, 1, Len(idx) - 1)) + idx[Len(idx)]

\* a fitted_line array whose elements are pairwise different
TrendArray(shape) == [shape |-> shape, data |-> [idx \in Indices(shape) |-> Code(idx)]]

\* the value of the pipeline variables while datasetup.py runs
NoPipe ==
    /\ csv = <<>>
    /\ df = <<>>
    /\ dow_columns = <<>>
    /\ product_df = {}
    /\ results = <<>>
    /\ coef_df = [columns |-> {}, rows |-> <<>>]
    /\ weekday_cols = <<>>

\* np.load and the three arrays read from the bundle; an array that is not
\* 3-D is never read beyond its shape and holds zeros
InitMat ==
    /\ script = "datasetup"
    /\ pc = "loaded"
    /\ \E sshape \in Shapes(3) \cup Shapes(2) :
       \E sdata \in IF Len(sshape) = 3 THEN [Indices(sshape) -> Values]
                    ELSE {[idx \in Indices(sshape) |-> 0]} :
       \E fshape \in {sshape} \cup OtherShapes(sshape) :
       \E dshape \in {sshape, <<sshape[Len(sshape)]>>} :
          npz = [dates |-> [shape |-> dshape],
                 synth_sales_data |-> [shape |-> sshape, data |-> sdata],
                 fitted_line |-> TrendArray(fshape)]
    /\ flat = [store_col |-> <<>>, product_col |-> <<>>, date_col |-> <<>>,
               sales_flat |-> <<>>, fitted_flat |-> <<>>]
    /\ out_df = <<>>
    /\ NoPipe

\* S, P, N = synth_sales_data.shape, which raises unless the array is 3-D
MatUnpack ==
    /\ script = "datasetup"
    /\ pc = "loaded"
    /\ pc' = IF Len(npz.synth_sales_data.shape) = 3 THEN "unpacked" ELSE "error"
    /\ UNCHANGED <<script, matVars, pipeVars>>

\* ndarray.ravel(order="F"): the elements in column-major order
RavelF(a) == [i \in 1..Size(a.shape) |-> a.data[UnravelF(i - 1, a.shape)]]

\* MatFlatten with the sales raveled in column-major order
MatFlattenF ==
    /\ script = "datasetup"
    /\ pc = "unpacked"
    /\ LET shape == npz.synth_sales_data.shape
           store_ids   == IndexArray(shape[1], 1, 3)
           product_ids == IndexArray(shape[2], 2, 3)
           date_ids    == IndexArray(shape[3], 3, 3)
       IN  flat' = [store_col   |-> Ravel(BroadcastTo(store_ids, shape)),
                    product_col |-> Ravel(BroadcastTo(product_ids, shape)),
                    date_col    |-> Ravel(BroadcastTo(date_ids, shape)),
                    sales_flat  |-> RavelF(npz.synth_sales_data),
                    fitted_flat |-> Ravel(npz.fitted_line)]
    /\ pc' = "flattened"
    /\ UNCHANGED <<script, npz, out_df, pipeVars>>

\* the index arrays, their broadcast to the full shape, and the five ravels
MatFlatten ==
    /\ script = "datasetup"
    /\ pc = "unpacked"
    /\ LET shape == npz.synth_sales_data.shape
           S == shape[1]
           P == shape[2]
           N == shape[3]
           store_ids   == IndexArray(S, 1, 3)
           product_ids == IndexArray(P, 2, 3)
           date_ids    == IndexArray(N, 3, 3)
       IN  flat' = [store_col   |-> Ravel(BroadcastTo(store_ids, shape)),
                    product_col |-> Ravel(BroadcastTo(product_ids, shape)),
                    date_col    |-> Ravel(BroadcastTo(date_ids, shape)),
                    sales_flat  |-> Ravel(npz.synth_sales_data),
                    fitted_flat |-> Ravel(npz.fitted_line)]
    /\ pc' = "flattened"
    /\ UNCHANGED <<script, npz, out_df, pipeVars>>

\* MatDates with the offset subtracted from the start date
MatDatesBackward ==
    /\ script = "datasetup"
    /\ pc = "flattened"
    /\ flat' = [flat EXCEPT !.date_col =
                    [i \in 1..Len(flat.date_col) |-> StartDate - flat.date_col[i]]]
    /\ pc' = "dated"
    /\ UNCHANGED <<script, npz, out_df, pipeVars>>

\* start_date + pd.Timedelta(days=int(i)) for every offset of date_col
MatDates ==
    /\ script = "datasetup"
    /\ pc = "flattened"
    /\ flat' = [flat EXCEPT !.date_col =
                    [i \in 1..Len(flat.date_col) |-> StartDate + flat.date_col[i]]]
    /\ pc' = "dated"
    /\ UNCHANGED <<script, npz, out_df, pipeVars>>

\* pd.DataFrame({...}): raises when the columns differ in length
MatBuildDf ==
    /\ script = "datasetup"
    /\ pc = "dated"
    /\ LET n == Len(flat.store_col)
           sameLength == /\ Len(flat.product_col) = n
                         /\ Len(flat.date_col) = n
                         /\ Len(flat.sales_flat) = n
                         /\ Len(flat.fitted_flat) = n
       IN  IF sameLength
           THEN /\ out_df' = [i \in 1..n |->
                                [store_id         |-> flat.store_col[i],
                                 product_id       |-> flat.product_col[i],
                                 date             |-> flat.date_col[i],
                                 synth_sales_data |-> flat.sales_flat[i],
                                 fitted_line      |-> flat.fitted_flat[i]]]
                /\ pc' = "built"
           ELSE /\ out_df' = out_df
                /\ pc' = "error"
    /\ UNCHANGED <<script, npz, flat, pipeVars>>

\* df.to_csv(write_path, index=False)
MatWrite ==
    /\ script = "datasetup"
    /\ pc = "built"
    /\ pc' = "written"
    /\ UNCHANGED <<script, matVars, pipeVars>>

NextMat == MatUnpack \/ MatFlatten \/ MatDates \/ MatBuildDf \/ MatWrite

SpecMat == InitMat /\ [][NextMat]_vars

----------------------------------------------------------------------------
(* The analysis pipelines: pandasuse.py and polarsuse.py.                  *)
(* A row of the table read from the csv file is a record [store_id,        *)
(* product_id, date, sales] (synth_sales_data renamed to sales; the        *)
(* fitted_line column is never read again and is left out).  A dummy       *)
(* column is named by the number after "dow_".                              *)

\* the longest table read from the csv file
MaxRows == 3
\* product_id values of the table
Products == {0, 1}
\* the dates of the table, as offsets from 2025-06-01: Sunday, Monday, Tuesday
DayOffsets == {0, 1, 2}
\* sales quantities of a row
Sales == {1, 2}

\* Series.dt.dayofweek of pandas: 0 is Monday, 6 is Sunday
DayOfWeek(date) == (date + 3) % 7

\* Expr.dt.weekday of polars: the ISO weekday, 1 is Monday, 7 is Sunday
Weekday(date) == ((date + 3) % 7) + 1

RECURSIVE SortedSeq(_)
\* the members of a finite set of numbers in ascending order
SortedSeq(S) ==
    IF S = {} THEN <<>>
    ELSE LET m == CHOOSE x \in S : \A y \in S : x <= y
         IN  <<m>> \o SortedSeq(S \ {m})

\* the value of the datasetup variables while a pipeline runs
NoMat ==
    /\ npz = [dates |-> [shape |-> <<>>],
              synth_sales_data |-> [shape |-> <<>>, data |-> <<>>],
              fitted_line |-> [shape |-> <<>>, data |-> <<>>]]
    /\ flat = [store_col |-> <<>>, product_col |-> <<>>, date_col |-> <<>>,
               sales_flat |-> <<>>, fitted_flat |-> <<>>]
    /\ out_df = <<>>

\* the rows of the csv file, given the (product_id, date, sales) of each: a
\* row's store_id counts the earlier rows of the same product and date
WithStores(t) ==
    [i \in 1..Len(t) |->
        [store_id   |-> Cardinality({j \in 1..(i - 1) :
                            /\ t[j].product_id = t[i].product_id
                            /\ t[j].date = t[i].date}),
         product_id |-> t[i].product_id,
         date       |-> t[i].date,
         sales      |-> t[i].sales]]

\* read_csv, the cast of the date column and the rename to sales
InitPipe ==
    /\ script \in {"pandasuse", "polarsuse"}
    /\ pc = "read"
    /\ \E n \in 1..MaxRows :
       \E t \in [1..n -> [product_id : Products,
                          date : {StartDate + o : o \in DayOffsets},
                          sales : Sales]] :
          csv = WithStores(t)
    /\ df = <<>>
    /\ dow_columns = <<>>
    /\ product_df = {}
    /\ results = <<>>
    /\ coef_df = [columns |-> {}, rows |-> <<>>]
    /\ weekday_cols = <<>>
    /\ NoMat

\* get_dummies without drop_first: a column for every value present
GetDummiesKeepFirst(values) == SortedSeq(SeqRange(values))

\* pd.get_dummies(s, prefix="dow", drop_first=True): one column per value
\* present, in ascending order, without the first
GetDummiesDropFirst(values) ==
    LET cats == SortedSeq(SeqRange(values))
    IN  IF cats = <<>> THEN <<>> ELSE Tail(cats)

\* DataFrame.to_dummies of polars: one column per value present, sorted by name
ToDummies(values) == SortedSeq(SeqRange(values))

\* the table with the dummy columns `cols` of the weekday numbers `dow` joined
JoinDummies(table, dow, cols) ==
    [i \in 1..Len(table) |->
        [store_id   |-> table[i].store_id,
         product_id |-> table[i].product_id,
         date       |-> table[i].date,
         sales      |-> table[i].sales,
         dow        |-> [c \in SeqRange(cols) |-> IF dow[i] = c THEN 1 ELSE 0]]]

\* pandasuse.py: day_of_week, get_dummies, concat, drop, dow_columns
PdDummies ==
    /\ script = "pandasuse"
    /\ pc = "read"
    /\ LET day_of_week == [i \in 1..Len(csv) |-> DayOfWeek(csv[i].date)]
           days_of_week == GetDummiesDropFirst(day_of_week)
       IN  /\ df' = JoinDummies(csv, day_of_week, days_of_week)
           /\ dow_columns' = days_of_week
    /\ pc' = "dummies"
    /\ UNCHANGED <<script, matVars, csv, product_df, results, coef_df, weekday_cols>>

\* polarsuse.py: dow, to_dummies, hstack, drop("dow"), drop("dow_1"), which
\* raises when there is no column dow_1, and dow_columns
PlDummies ==
    /\ script = "polarsuse"
    /\ pc = "read"
    /\ LET dow == [i \in 1..Len(csv) |-> Weekday(csv[i].date)]
           days_of_week == ToDummies(dow)
           kept == SelectSeq(days_of_week, LAMBDA c : c /= 1)
       IN  IF 1 \in SeqRange(days_of_week)
           THEN /\ df' = JoinDummies(csv, dow, kept)
                /\ dow_columns' = kept
                /\ pc' = "dummies"
           ELSE /\ UNCHANGED <<df, dow_columns>>
                /\ pc' = "error"
    /\ UNCHANGED <<script, matVars, csv, product_df, results, coef_df, weekday_cols>>

RECURSIVE SumSales(_, _)
\* the sum of the sales of the rows `idxs` of a table
SumSales(table, idxs) ==
    IF idxs = {} THEN 0
    ELSE LET i == CHOOSE x \in idxs : TRUE
         IN  table[i].sales + SumSales(table, idxs \ {i})

\* GroupByAgg grouping by date alone
GroupByDateOnly(table, cols) ==
    {[product_id |-> table[first].product_id,
      date       |-> table[first].date,
      sales      |-> SumSales(table, {i \in 1..Len(table) : table[i].date = table[first].date}),
      dow        |-> [c \in SeqRange(cols) |-> table[first].dow[c]]] :
        first \in {i \in 1..Len(table) :
                      \A j \in 1..(i - 1) : table[j].date /= table[i].date}}

\* groupby(["product_id", "date"]).agg(sales sum, every dummy column first):
\* one row per key, with the sum of the group's sales and the dummy values of
\* the group's first row
GroupByAgg(table, cols) ==
    LET SameKey(i, j) == /\ table[i].product_id = table[j].product_id
                         /\ table[i].date = table[j].date
    IN  {[product_id |-> table[first].product_id,
          date       |-> table[first].date,
          sales      |-> SumSales(table, {i \in 1..Len(table) : SameKey(i, first)}),
          dow        |-> [c \in SeqRange(cols) |-> table[first].dow[c]]] :
            first \in {i \in 1..Len(table) : \A j \in 1..(i - 1) : ~SameKey(i, j)}}

\* pandasuse.py: product_df = df.groupby(...).agg(...).reset_index()
PdAggregate ==
    /\ script = "pandasuse"
    /\ pc = "dummies"
    /\ product_df' = GroupByAgg(df, dow_columns)
    /\ pc' = "aggregated"
    /\ UNCHANGED <<script, matVars, csv, df, dow_columns, results, coef_df, weekday_cols>>

\* polarsuse.py: product_df = df.group_by(...).agg([...]); the order of its
\* rows is not specified, so the table is a set of rows
PlAggregate ==
    /\ script = "polarsuse"
    /\ pc = "dummies"
    /\ product_df' = GroupByAgg(df, dow_columns)
    /\ pc' = "aggregated"
    /\ UNCHANGED <<script, matVars, csv, df, dow_columns, results, coef_df, weekday_cols>>

----------------------------------------------------------------------------
(* Ordinary least squares on a design matrix of dummy columns, in exact    *)
(* rational arithmetic.  sm.OLS(y, X).fit() solves with the pseudo-inverse: *)
(* of the coefficient vectors with the least sum of squared residuals it   *)
(* returns the one of least norm.  In the matrices built here every column *)
(* holds only 0 and 1, one column at most is all ones, and a row has at    *)
(* most one 1 outside that column; the least-squares fits are then the     *)
(* coefficient vectors that give every kind of row its mean response.      *)

Abs(x) == IF x < 0 THEN -x ELSE x

RECURSIVE GCD(_, _)
GCD(a, b) == IF b = 0 THEN a ELSE GCD(b, a % b)

\* the rational n/d in lowest terms with a positive denominator
Rat(n, d) ==
    LET g == GCD(Abs(n), Abs(d))
        sgn == IF d < 0 THEN -1 ELSE 1
    IN  <<(sgn * n) \div g, (sgn * d) \div g>>

RatAdd(a, b) == Rat(a[1] * b[2] + b[1] * a[2], a[2] * b[2])
RatSub(a, b) == Rat(a[1] * b[2] - b[1] * a[2], a[2] * b[2])
Zero == <<0, 1>>

RECURSIVE SumOver(_, _)
\* the sum of the numbers y[i], i in idxs
SumOver(y, idxs) ==
    IF idxs = {} THEN 0
    ELSE LET i == CHOOSE x \in idxs : TRUE
         IN  y[i] + SumOver(y, idxs \ {i})

RECURSIVE RatSum(_, _)
\* the sum of the rationals f[j], j in js
RatSum(f, js) ==
    IF js = {} THEN Zero
    ELSE LET j == CHOOSE x \in js : TRUE
         IN  RatAdd(f[j], RatSum(f, js \ {j}))

\* the fit of y on X: params, the estimated coefficients, one per column,
\* rank, the rank of X, and nobs, the number of rows
OLSFit(X, y) ==
    LET rows   == 1..Len(X)
        cols   == 1..Len(X[1])
        ones   == {j \in cols : \A i \in rows : X[i][j] = 1}
        zeros  == {j \in cols : \A i \in rows : X[i][j] = 0}
        active == cols \ (ones \cup zeros)
        with(j) == {i \in rows : X[i][j] = 1}
        base   == {i \in rows : \A j \in active : X[i][j] = 0}
        mean(I) == Rat(SumOver(y, I), Cardinality(I))
        m      == [j \in active |-> mean(with(j))]
        \* the coefficient of the all-ones column
        c      == IF ones = {} THEN Zero
                  ELSE IF base /= {} THEN mean(base)
                  ELSE LET total == RatSum(m, active)
                       IN  Rat(total[1], total[2] * (Cardinality(active) + 1))
    IN  [params |-> [j \in cols |->
                        IF j \in ones THEN c
                        ELSE IF j \in zeros THEN Zero
                        ELSE RatSub(m[j], c)],
         rank   |-> Cardinality(active)
                    + (IF ones /= {} /\ (base /= {} \/ active = {}) THEN 1 ELSE 0),
         nobs   |-> Len(X)]

\* sm.add_constant(X), has_constant="skip" by default: a column of ones is
\* put in front unless X already has a column that is constant and not zero
AddConstant(X) ==
    IF \E j \in 1..Len(X[1]) :
          /\ \A i \in 1..Len(X) : X[i][j] = X[1][j]
          /\ \A i \in 1..Len(X) : X[i][j] /= 0
    THEN X
    ELSE [i \in 1..Len(X) |-> <<1>> \o X[i]]

\* names of the columns of the coefficient table
ProductId == [kind |-> "product_id", n |-> 0]
Const == [kind |-> "const", n |-> 0]
Dow(k) == [kind |-> "dow", n |-> k]
Xn(k) == [kind |-> "x", n |-> k]
PName(name) == [kind |-> IF name.kind = "const" THEN "p_const" ELSE "p_dow", n |-> name.n]

\* cells of the coefficient table: a rational number, NaN, or a p-value,
\* whose number the model does not compute
Num(r) == [kind |-> "num", n |-> r[1], d |-> r[2]]
NaN == [kind |-> "nan", n |-> 0, d |-> 1]
PValue == [kind |-> "pvalue", n |-> 0, d |-> 1]

\* the rows of one product of product_df, in date order
GroupOf(table, product_id) ==
    LET rows  == {r \in table : r.product_id = product_id}
        dates == SortedSeq({r.date : r \in rows})
    IN  [i \in 1..Len(dates) |-> CHOOSE r \in rows : r.date = dates[i]]

\* group[dow_columns] as a matrix, one row per row of the group
DesignOf(group, cols) ==
    [i \in 1..Len(group) |-> [j \in 1..Len(cols) |-> group[i].dow[cols[j]]]]

\* results[key] = model on a dict kept in insertion order
DictSet(dict, key, model) ==
    IF \E i \in 1..Len(dict) : dict[i].product_id = key
    THEN [i \in 1..Len(dict) |->
            IF dict[i].product_id = key
            THEN [product_id |-> key, model |-> model] ELSE dict[i]]
    ELSE Append(dict, [product_id |-> key, model |-> model])

\* pandasuse.py, the body of the loop: X, add_constant, y, OLS, fit; the
\* parameters are named after the columns of X.  exog records what each
\* column of X is: 0 for the constant, else the ISO weekday of the dummy
PdFit(group, cols) ==
    LET X0  == DesignOf(group, cols)
        X   == AddConstant(X0)
        y   == [i \in 1..Len(group) |-> group[i].sales]
        fit == OLSFit(X, y)
        dow == [j \in 1..Len(cols) |-> Dow(cols[j])]
        iso == [j \in 1..Len(cols) |-> cols[j] + 1]
    IN  [names  |-> IF Len(X[1]) > Len(cols) THEN <<Const>> \o dow ELSE dow,
         exog   |-> IF Len(X[1]) > Len(cols) THEN <<0>> \o iso ELSE iso,
         params |-> fit.params,
         rank   |-> fit.rank,
         nobs   |-> fit.nobs]

RECURSIVE PdLoop(_, _, _, _)
\* the loop of pandasuse.py over the products `order`
PdLoop(table, cols, order, dict) ==
    IF order = <<>> THEN dict
    ELSE PdLoop(table, cols, Tail(order),
                DictSet(dict, Head(order), PdFit(GroupOf(table, Head(order)), cols)))

\* pandasuse.py: for product_id, group in product_df.groupby("product_id"),
\* which visits the products in ascending order
PdRegress ==
    /\ script = "pandasuse"
    /\ pc = "aggregated"
    /\ results' = PdLoop(product_df, dow_columns,
                         SortedSeq({r.product_id : r \in product_df}), <<>>)
    /\ pc' = "fitted"
    /\ UNCHANGED <<script, matVars, csv, df, dow_columns, product_df, coef_df, weekday_cols>>

\* the names statsmodels gives the columns of a numpy matrix: const for the
\* first column without variance, x1, x2, ... for the others
ExogNames(X) ==
    LET cols    == 1..Len(X[1])
        flatCol == {j \in cols : \A i \in 1..Len(X) : X[i][j] = X[1][j]}
    IN  IF flatCol = {}
        THEN [j \in cols |-> Xn(j)]
        ELSE LET const_idx == CHOOSE j \in flatCol : \A k \in flatCol : j <= k
             IN  [j \in cols |-> IF j = const_idx THEN Const
                                 ELSE IF j < const_idx THEN Xn(j) ELSE Xn(j - 1)]

\* polarsuse.py, the body of the loop: X, add_constant, y, OLS, fit
PlFit(group, cols) ==
    LET X0  == DesignOf(group, cols)
        X   == AddConstant(X0)
        y   == [i \in 1..Len(group) |-> group[i].sales]
        fit == OLSFit(X, y)
    IN  [names  |-> ExogNames(X),
         exog   |-> IF Len(X[1]) > Len(cols) THEN <<0>> \o cols ELSE cols,
         params |-> fit.params,
         rank   |-> fit.rank,
         nobs   |-> fit.nobs]

RECURSIVE PlLoop(_, _, _, _)
\* the loop of polarsuse.py over the partitions, in the order `order`
PlLoop(table, cols, order, dict) ==
    IF order = <<>> THEN dict
    ELSE PlLoop(table, cols, Tail(order),
                DictSet(dict, Head(order), PlFit(GroupOf(table, Head(order)), cols)))

\* the orders in which a set can be listed
Orders(S) ==
    {o \in [1..Cardinality(S) -> S] : \A i, j \in 1..Cardinality(S) : i /= j => o[i] /= o[j]}

\* polarsuse.py: for product in product_df.partition_by("product_id"): the
\* partitions come in the order of product_df, which group_by leaves open.
\* With no dummy column left, select(dow_columns) is a frame without rows and
\* OLS raises on the lengths of y and X
PlRegress ==
    /\ script = "polarsuse"
    /\ pc = "aggregated"
    /\ IF dow_columns = <<>>
       THEN /\ pc' = "error"
            /\ UNCHANGED results
       ELSE /\ \E order \in Orders({r.product_id : r \in product_df}) :
                  results' = PlLoop(product_df, dow_columns, order, <<>>)
            /\ pc' = "fitted"
    /\ UNCHANGED <<script, matVars, csv, df, dow_columns, product_df, coef_df, weekday_cols>>

\* pd.DataFrame(rows): the columns are all the keys of the rows, and a row
\* without a key holds NaN there
DataFrameOf(rows) ==
    LET columns == UNION {DOMAIN rows[i] : i \in 1..Len(rows)}
    IN  [columns |-> columns,
         rows    |-> [i \in 1..Len(rows) |->
                        [c \in columns |-> IF c \in DOMAIN rows[i] THEN rows[i][c] ELSE NaN]]]

\* the columns of one kind, ordered by the number in their name
ColumnsOfKind(columns, kind) ==
    LET ns == SortedSeq({c.n : c \in {x \in columns : x.kind = kind}})
    IN  [i \in 1..Len(ns) |-> [kind |-> kind, n |-> ns[i]]]

\* the value of parameter `name` of a model
ParamOf(model, name) ==
    model.params[CHOOSE j \in 1..Len(model.names) : model.names[j] = name]

\* pandasuse.py: one dict per entry of results with product_id, the
\* parameters by name and the p-values under p_<name>
PdCoefRows(dict) ==
    [i \in 1..Len(dict) |->
        LET model == dict[i].model
            names == SeqRange(model.names)
        IN  [c \in {ProductId} \cup names \cup {PName(nm) : nm \in names} |->
                IF c = ProductId THEN Num(<<dict[i].product_id, 1>>)
                ELSE IF c \in names THEN Num(ParamOf(model, c))
                ELSE PValue]]

\* pandasuse.py: coef_df; the box plot takes the columns whose name starts
\* with dow_
PdAssemble ==
    /\ script = "pandasuse"
    /\ pc = "fitted"
    /\ coef_df' = DataFrameOf(PdCoefRows(results))
    /\ weekday_cols' = ColumnsOfKind(coef_df'.columns, "dow")
    /\ pc' = "assembled"
    /\ UNCHANGED <<script, matVars, csv, df, dow_columns, product_df, results>>

\* polarsuse.py: param_rows, one Series of the parameters indexed by
\* exog_names, plus product_id, per entry of results
PlParamRows(dict) ==
    [i \in 1..Len(dict) |->
        LET model == dict[i].model
            names == SeqRange(model.names)
        IN  [c \in names \cup {ProductId} |->
                IF c = ProductId THEN Num(<<dict[i].product_id, 1>>)
                ELSE Num(ParamOf(model, c))]]

\* polarsuse.py: coef_df, and weekday_cols, the columns starting with x
\* sorted by the number after the x
PlAssemble ==
    /\ script = "polarsuse"
    /\ pc = "fitted"
    /\ coef_df' = DataFrameOf(PlParamRows(results))
    /\ weekday_cols' = ColumnsOfKind(coef_df'.columns, "x")
    /\ pc' = "assembled"
    /\ UNCHANGED <<script, matVars, csv, df, dow_columns, product_df, results>>

NextPipe ==
    \/ PdDummies \/ PdAggregate \/ PdRegress \/ PdAssemble
    \/ PlDummies \/ PlAggregate \/ PlRegress \/ PlAssemble

SpecPipe == InitPipe /\ [][NextPipe]_vars

----------------------------------------------------------------------------
(* The end-to-end example: 2 stores, 2 products, 14 consecutive days, the  *)
(* sales of a store and product being a level of its own plus 10 on        *)
(* Mondays.  The rows come in the order datasetup.py writes them.          *)

\* the sales levels of a store and product
BaseLevels == {3, 5}

\* whether a date is a Monday: 2025-06-01 is a Sunday
IsMonday(date) == (date - StartDate) % 7 = 1

\* the table of the example that starts `start` days after 2025-06-01
ExampleTable(start, base) ==
    [i \in 1..56 |->
        LET idx  == Unravel(i - 1, <<2, 2, 14>>)
            date == StartDate + start + idx[3]
        IN  [store_id   |-> idx[1],
             product_id |-> idx[2],
             date       |-> date,
             sales      |-> base[<<idx[1], idx[2]>>] + (IF IsMonday(date) THEN 10 ELSE 0)]]

InitE2E ==
    /\ script \in {"pandasuse", "polarsuse"}
    /\ pc = "read"
    /\ \E start \in 0..6 :
       \E base \in [(0..1) \X (0..1) -> BaseLevels] :
          csv = ExampleTable(start, base)
    /\ df = <<>>
    /\ dow_columns = <<>>
    /\ product_df = {}
    /\ results = <<>>
    /\ coef_df = [columns |-> {}, rows |-> <<>>]
    /\ weekday_cols = <<>>
    /\ NoMat

SpecE2E == InitE2E /\ [][NextPipe]_vars

----------------------------------------------------------------------------
(* Claims about datasetup.py                                               *)

\* the table exists: pd.DataFrame returned
MatBuilt == script = "datasetup" /\ pc \in {"built", "written"}

\* synth_sales_data and fitted_line have the same shape (S, P, N)
CoShaped == npz.fitted_line.shape = npz.synth_sales_data.shape

\* the rows of the table for store s, product p and day offset t
RowsAt(s, p, t) ==
    {i \in 1..Len(out_df) : /\ out_df[i].store_id = s
                            /\ out_df[i].product_id = p
                            /\ out_df[i].date = StartDate + t}

\* C1: when synth_sales_data and fitted_line both have shape (S, P, N), the
\* table has S*P*N rows and, for every index triple (s, p, t), exactly one
\* row with store_id s, product_id p and date 2025-06-01 + t days; that row
\* carries synth_sales_data[s][p][t] and fitted_line[s][p][t].
C1_RowPerIndexTriple ==
    (MatBuilt /\ CoShaped) =>
        /\ Len(out_df) = Size(npz.synth_sales_data.shape)
        /\ \A idx \in Indices(npz.synth_sales_data.shape) :
              LET rows == RowsAt(idx[1], idx[2], idx[3])
              IN  /\ Cardinality(rows) = 1
                  /\ \A i \in rows :
                        /\ out_df[i].synth_sales_data = npz.synth_sales_data.data[idx]
                        /\ out_df[i].fitted_line = npz.fitted_line.data[idx]

\* a 2 x 2 x 2 bundle with sales that differ, flattened and written
C1_Witness ==
    /\ script = "datasetup"
    /\ pc = "written"
    /\ CoShaped
    /\ npz.synth_sales_data.shape = <<2, 2, 2>>
    /\ npz.synth_sales_data.data[<<0, 1, 0>>] /= npz.synth_sales_data.data[<<1, 0, 0>>]
    /\ npz.synth_sales_data.data[<<0, 0, 1>>] /= npz.synth_sales_data.data[<<0, 1, 0>>]

\* how many members of a set of numbers are below x
Rank(x, set) == Cardinality({y \in set : y < x})

\* the 3-D array rebuilt from column col of a table: rows grouped by
\* (store_id, product_id), each group ordered by date; a row's place is the
\* rank of its store, the rank of its product and the rank of its date in
\* its group
Rebuild(table, col) ==
    LET rows     == 1..Len(table)
        stores   == {table[i].store_id : i \in rows}
        products == {table[i].product_id : i \in rows}
        placed   == {<<<<Rank(table[i].store_id, stores),
                         Rank(table[i].product_id, products),
                         Cardinality({j \in rows :
                             /\ table[j].store_id = table[i].store_id
                             /\ table[j].product_id = table[i].product_id
                             /\ table[j].date < table[i].date})>>,
                       table[i][col]>> : i \in rows}
        shape    == <<Cardinality(stores), Cardinality(products),
                      Cardinality({e \in placed : e[1][1] = 0 /\ e[1][2] = 0})>>
    IN  IF Len(table) = Size(shape) /\ {e[1] : e \in placed} = Indices(shape)
        THEN [shape |-> shape,
              data  |-> [idx \in Indices(shape) |->
                           (CHOOSE e \in placed : e[1] = idx)[2]]]
        ELSE [shape |-> <<>>, data |-> <<>>]

\* C2: flattening a co-shaped pair of arrays and rebuilding the 3-D arrays
\* from the table (group by store_id and product_id, order by date) gives
\* back both arrays, element for element.
C2_RoundTrip ==
    (MatBuilt /\ CoShaped) =>
        /\ Rebuild(out_df, "synth_sales_data") = npz.synth_sales_data
        /\ Rebuild(out_df, "fitted_line") = npz.fitted_line

\* a bundle with two time steps and two products whose sales differ in time
C2_Witness ==
    /\ script = "datasetup"
    /\ pc = "built"
    /\ CoShaped
    /\ npz.synth_sales_data.shape = <<1, 2, 2>>
    /\ npz.synth_sales_data.data[<<0, 0, 0>>] /= npz.synth_sales_data.data[<<0, 0, 1>>]
    /\ npz.synth_sales_data.data[<<0, 1, 0>>] /= npz.synth_sales_data.data[<<0, 0, 0>>]

\* C3: the run fails whenever dates, synth_sales_data and fitted_line do
\* not all have the same shape: no table is built from such a bundle.
C3_ShapeMismatchFails ==
    (script = "datasetup" /\ ~(CoShaped /\ npz.dates.shape = npz.synth_sales_data.shape))
        => pc \notin {"built", "written"}

----------------------------------------------------------------------------
(* Claims about pandasuse.py and polarsuse.py                              *)

Pipeline == script \in {"pandasuse", "polarsuse"}

\* the ISO weekday of a date, counted from 2025-06-01, a Sunday
IsoWeekday(date) == ((date - StartDate + 6) % 7) + 1

\* the ISO weekday whose dummy column is named dow_<c> in the running script
ColumnWeekday(c) == IF script = "pandasuse" THEN c + 1 ELSE c

RECURSIVE SumDummies(_, _)
\* the sum of the dummy values of a row over the columns cs
SumDummies(dow, cs) ==
    IF cs = {} THEN 0
    ELSE LET c == CHOOSE x \in cs : TRUE
         IN  dow[c] + SumDummies(dow, cs \ {c})

\* C4: in both scripts and for every table, the dummies are joined and one
\* weekday b is dropped as baseline: in every row each dummy is 0 or 1, at
\* most one is 1, and the dummies plus the indicator of the date falling on
\* weekday b add up to 1.
C4_OneHotComplete ==
    (Pipeline /\ pc /= "read") =>
        /\ Len(df) = Len(csv)
        /\ \E b \in 1..7 :
              /\ \A c \in SeqRange(dow_columns) : ColumnWeekday(c) /= b
              /\ \A i \in 1..Len(df) :
                    /\ \A c \in DOMAIN df[i].dow : df[i].dow[c] \in {0, 1}
                    /\ Cardinality({c \in DOMAIN df[i].dow : df[i].dow[c] = 1}) <= 1
                    /\ SumDummies(df[i].dow, DOMAIN df[i].dow)
                         + (IF IsoWeekday(df[i].date) = b THEN 1 ELSE 0) = 1

\* the aggregation has run
Aggregated == Pipeline /\ product_df /= {}

\* the rows of df with a product_id and date
RowsOfKey(product_id, date) ==
    {i \in 1..Len(df) : df[i].product_id = product_id /\ df[i].date = date}

\* C5: the aggregated table has exactly one row for every (product_id, date)
\* of the input and no other row; the row's sales is the sum of the sales of
\* the input rows of that pair, and each dummy is the one the date decides,
\* the same in every input row of the pair.
C5_OneRowPerProductDate ==
    Aggregated =>
        /\ \A i \in 1..Len(df) :
              Cardinality({r \in product_df : /\ r.product_id = df[i].product_id
                                              /\ r.date = df[i].date}) = 1
        /\ \A r \in product_df :
              LET rows == RowsOfKey(r.product_id, r.date)
              IN  /\ rows /= {}
                  /\ r.sales = SumOver([i \in 1..Len(df) |-> df[i].sales], rows)
                  /\ DOMAIN r.dow = SeqRange(dow_columns)
                  /\ \A c \in SeqRange(dow_columns) :
                        /\ r.dow[c] = IF IsoWeekday(r.date) = ColumnWeekday(c) THEN 1 ELSE 0
                        /\ \A i \in rows : df[i].dow[c] = r.dow[c]

\* two stores with different sales of one product on one day, and another
\* product-date pair beside it
C5_Witness ==
    /\ script = "polarsuse"
    /\ pc = "aggregated"
    /\ Cardinality(product_df) >= 2
    /\ dow_columns /= <<>>
    /\ \E i, j \in 1..Len(df) :
          /\ i < j
          /\ df[i].product_id = df[j].product_id
          /\ df[i].date = df[j].date
          /\ df[i].sales /= df[j].sales

\* pandasuse.py from the table read to coef_df
PdCoefDf(table) ==
    LET day_of_week == [i \in 1..Len(table) |-> DayOfWeek(table[i].date)]
        cols == GetDummiesDropFirst(day_of_week)
        agg  == GroupByAgg(JoinDummies(table, day_of_week, cols), cols)
    IN  DataFrameOf(PdCoefRows(
            PdLoop(agg, cols, SortedSeq({r.product_id : r \in agg}), <<>>)))

\* what a coefficient table says: for every product the intercept, the
\* coefficient of every weekday that has a column, and the p-value of each
PdLogical(table) ==
    {[product_id |-> table.rows[i][ProductId].n,
      intercept  |-> IF Const \in table.columns THEN table.rows[i][Const] ELSE NaN,
      weekday    |-> [w \in {c.n + 1 : c \in {x \in table.columns : x.kind = "dow"}} |->
                         table.rows[i][Dow(w - 1)]],
      pvalue     |-> [w \in {c.n + 1 : c \in {x \in table.columns : x.kind = "dow"}} |->
                         IF PName(Dow(w - 1)) \in table.columns
                         THEN table.rows[i][PName(Dow(w - 1))] ELSE NaN]] :
        i \in 1..Len(table.rows)}

\* the same of the table of polarsuse.py, column x<k> standing for the k-th
\* dummy column
PlLogical(table, cols) ==
    {[product_id |-> table.rows[i][ProductId].n,
      intercept  |-> IF Const \in table.columns THEN table.rows[i][Const] ELSE NaN,
      weekday    |-> [w \in {cols[c.n] : c \in {x \in table.columns : x.kind = "x"}} |->
                         table.rows[i][Xn(CHOOSE k \in 1..Len(cols) : cols[k] = w)]],
      pvalue     |-> [w \in {cols[c.n] : c \in {x \in table.columns : x.kind = "x"}} |->
                         IF PName(Xn(CHOOSE k \in 1..Len(cols) : cols[k] = w)) \in table.columns
                         THEN table.rows[i][PName(Xn(CHOOSE k \in 1..Len(cols) : cols[k] = w))]
                         ELSE NaN]] :
        i \in 1..Len(table.rows)}

\* C6: the two scripts give the same logical output for every table: when
\* one of them builds a coefficient table so does the other, with the same
\* products and for each the same intercept, the same coefficient for the
\* same weekday and the same p-values.
C6_VariantsAgree ==
    /\ (script = "polarsuse" /\ pc = "assembled")
          => PlLogical(coef_df, dow_columns) = PdLogical(PdCoefDf(csv))
    /\ (script = "pandasuse" /\ pc = "assembled")
          => \E i, j \in 1..Len(csv) : /\ Weekday(csv[i].date) = 1
                                       /\ Weekday(csv[j].date) /= 1

\* the coefficient cells of the row of coef_df for entry i of results
CoefCells(i) ==
    {c \in coef_df.columns : /\ c.kind \in {"const", "dow", "x"}
                             /\ coef_df.rows[i][c].kind = "num"}

\* C7: a product whose matrix X has fewer rows than columns, or a rank below
\* the number of its columns, gets no coefficients in the coefficient table.
C7_RankDeficiencyDetected ==
    (Pipeline /\ pc = "assembled") =>
        \A i \in 1..Len(results) :
            LET model == results[i].model
            IN  (model.nobs < Len(model.params) \/ model.rank < Len(model.params))
                    => CoefCells(i) = {}

\* C9: after the loop results holds exactly one model per product of the
\* aggregated table, fitted on that product's rows; the coefficient table
\* has one row per product, with the product's intercept and one
\* coefficient for every dummy column.
C9_OneModelPerProduct ==
    /\ (Pipeline /\ pc \in {"fitted", "assembled"}) =>
          /\ \A r \in product_df :
                Cardinality({i \in 1..Len(results) : results[i].product_id = r.product_id}) = 1
          /\ \A i \in 1..Len(results) :
                /\ \E r \in product_df : r.product_id = results[i].product_id
                /\ results[i].model.nobs =
                      Cardinality({r \in product_df : r.product_id = results[i].product_id})
    /\ (Pipeline /\ pc = "assembled") =>
          /\ Len(coef_df.rows) = Len(results)
          /\ \A i \in 1..Len(results) :
                LET model == results[i].model
                IN  /\ coef_df.rows[i][ProductId] = Num(<<results[i].product_id, 1>>)
                    /\ \E j \in 1..Len(model.exog) :
                          /\ model.exog[j] = 0
                          /\ coef_df.rows[i][model.names[j]] = Num(model.params[j])
                    /\ \A c \in SeqRange(dow_columns) :
                          \E j \in 1..Len(model.exog) :
                             /\ model.exog[j] = ColumnWeekday(c)
                             /\ coef_df.rows[i][model.names[j]] = Num(model.params[j])
                    /\ Cardinality(CoefCells(i)) = Len(dow_columns) + 1

----------------------------------------------------------------------------
(* Claims about the end-to-end example                                     *)

\* the cell of row i of coef_df that holds the coefficient of the dummy of
\* ISO weekday w (0: of the constant), if X has such a column
CellsOf(i, w) ==
    {coef_df.rows[i][results[i].model.names[j]] :
        j \in {k \in 1..Len(results[i].model.exog) : results[i].model.exog[k] = w}}

TotalSales(product_id, date) ==
    SumOver([i \in 1..Len(csv) |-> csv[i].sales],
            {i \in 1..Len(csv) : csv[i].product_id = product_id /\ csv[i].date = date})

C10_ColumnNamesAreWeekdays ==
    (script = "polarsuse" /\ pc = "assembled") =>
        /\ weekday_cols = [k \in 1..6 |-> Xn(k + 1)]
        /\ \A i \in 1..Len(coef_df.rows) :
              \A k \in 2..7 : CellsOf(i, k) = {coef_df.rows[i][Xn(k)]}

====
